---- MODULE Spec2Model ----
(***************************************************************************)
(* Assignment & Resolution Engine of echo-of-smartice.                     *)
(*                                                                         *)
(* The store is the Supabase/Postgres schema (echo_table, echo_qrcode,     *)
(* echo_qrcode_questionnaire, echo_questionnaire, echo_answers) with its   *)
(* UNIQUE and FOREIGN KEY ... ON DELETE CASCADE constraints.  The service  *)
(* functions of qrcodeService.ts / questionnaireService.ts are async:      *)
(* every `await supabase...` is one atomic store call, and two requests    *)
(* may interleave between their store calls.  Each store call is one       *)
(* action.                                                                 *)
(***************************************************************************)
EXTENDS Integers, Sequences, FiniteSets, TLC

VARIABLES
    echo_table,         \* ids of the rows of echo_table
    echo_questionnaire, \* ids of the rows of echo_questionnaire
    echo_qrcode,        \* rows of echo_qrcode: [id, table_id]
    next_qrcode_id,     \* crypto.randomUUID(): the next fresh QR code id
    assignments,        \* rows of echo_qrcode_questionnaire
    next_assignment_id, \* the next fresh primary key of echo_qrcode_questionnaire
    q_active,           \* echo_questionnaire.is_active, per questionnaire
    echo_answers,       \* rows of echo_answers
    next_answer_id,     \* the next fresh primary key of echo_answers
    pc,                 \* per request slot: the store call the request waits to make
    loc,                \* per request slot: the locals of the running request
    result,             \* per request slot: what the last finished request returned / threw
    ncalls,             \* number of requests started so far
    sel_weights,        \* weighted selection: weights of the eligible Assignments, in order
    sel_draw,           \* weighted selection: the draw, -1 before any draw
    sel_out,            \* weighted selection: index selected for sel_draw, 0 before any draw
    val_questions,      \* validation: the questions array handed to validateQuestions
    val_result          \* validation: what validateQuestions returned, NoVerdict before

vars == <<echo_table, echo_questionnaire, echo_qrcode, next_qrcode_id, assignments,
          next_assignment_id, q_active, echo_answers, next_answer_id,
          pc, loc, result, ncalls, sel_weights, sel_draw, sel_out,
          val_questions, val_result>>

catalogVars == <<echo_table, echo_questionnaire>>
answerVars == <<echo_answers, next_answer_id>>
storeVars == <<catalogVars, echo_qrcode, next_qrcode_id, assignments, next_assignment_id,
               q_active, answerVars>>
selVars == <<sel_weights, sel_draw, sel_out>>
valVars == <<val_questions, val_result>>

----------------------------------------------------------------------------
(* Bounds of the model *)

\* requests started in an interleaved run
MaxCalls == 2
\* requests started in a run where requests do not overlap
MaxCallsSeq == 3
\* requests started in a run with responses and deletions of tables and questionnaires
MaxCallsCascade == 3
\* requests started in a run where store calls may fail
MaxCallsFault == 2
\* requests started in a run where callers pass any weight
MaxCallsWeight == 2
\* weighted selection: number of eligible Assignments and largest weight
MaxSelLen == 3
MaxSelWeight == 2
\* requests started in a run of the manual operations alone
MaxCallsManual == 3
\* validation: number of questions in the array and of options of a question
MaxQuestions == 2
MaxOptionCount == 6

----------------------------------------------------------------------------
(* The universe: restaurants, tables, questionnaires, weights *)

NULL == "null"
Restaurants == {"r1", "r2"}
Tables == {"t1", "t2", "t3", "t4"}
Questionnaires == {"q1", "q2"}
Weights == {1, 2}
\* weights a caller can pass: `weight: number` is any number
AnyWeights == {-1, 0, 1}
Procs == {1, 2}

\* echo_table.restaurant_id
restaurant_id(t) == IF t = "t4" THEN "r2" ELSE "r1"

\* order in which a batch of rows keyed by questionnaire receives primary keys
QIndex(q) == IF q = "q1" THEN 0 ELSE 1

----------------------------------------------------------------------------
(* Store: constraints of the schema *)

QRIds(qrs) == {c.id : c \in qrs}

QRInsertAllowedNoUnique(qrs, tableId) == tableId \in echo_table

\* echo_qrcode: UNIQUE(table_id), FK table_id -> echo_table.id
QRInsertAllowed(qrs, tableId) ==
    /\ tableId \in echo_table
    /\ \A c \in qrs : c.table_id # tableId

InsertAllowedNoUnique(asg, qrs, keys) ==
    \A k \in keys : k[1] \in QRIds(qrs) /\ k[2] \in echo_questionnaire

\* echo_qrcode_questionnaire: UNIQUE(qrcode_id, questionnaire_id),
\* FK qrcode_id -> echo_qrcode.id, FK questionnaire_id -> echo_questionnaire.id.
\* keys is the set of <<qrcode_id, questionnaire_id>> of one INSERT statement,
\* which Postgres accepts or rejects as a whole.
InsertAllowed(asg, qrs, keys) ==
    \A k \in keys :
        /\ k[1] \in QRIds(qrs)
        /\ k[2] \in echo_questionnaire
        /\ \A a \in asg : ~(a.qrcode_id = k[1] /\ a.questionnaire_id = k[2])

NewRowInactive(id, qrcodeId, questionnaireId, weight) ==
    [id |-> id, qrcode_id |-> qrcodeId, questionnaire_id |-> questionnaireId,
     weight |-> weight, is_active |-> FALSE, deactivated_at |-> FALSE]

\* a new row of echo_qrcode_questionnaire, as the service inserts it
NewRow(id, qrcodeId, questionnaireId, weight) ==
    [id |-> id, qrcode_id |-> qrcodeId, questionnaire_id |-> questionnaireId,
     weight |-> weight, is_active |-> TRUE, deactivated_at |-> FALSE]

CascadeDeleteQRKeepsRows(asg, qrcodeId) == asg

\* DELETE FROM echo_qrcode WHERE id = ... with ON DELETE CASCADE to the assignments
CascadeDeleteQR(asg, qrcodeId) == {a \in asg : a.qrcode_id # qrcodeId}

\* the rows of echo_qrcode that remain once only the tables tbls remain
\* (FK table_id -> echo_table.id ON DELETE CASCADE)
CascadeQRCodes(qrs, tbls) == {c \in qrs : c.table_id \in tbls}

\* the rows of echo_qrcode_questionnaire that remain once only the QR codes qrs and
\* the questionnaires qs remain (both FKs ON DELETE CASCADE)
CascadeAssignments(asg, qrs, qs) ==
    {a \in asg : a.qrcode_id \in QRIds(qrs) /\ a.questionnaire_id \in qs}

CascadeAnswersKeepsOrphans(ans, tbls, qrs, qs, asg) ==
    {r \in ans : /\ r.table_id \in tbls
                 /\ r.qrcode_id \in QRIds(qrs)
                 /\ r.questionnaire_id \in qs}

\* the rows of echo_answers that remain once only these tables, QR codes,
\* questionnaires and assignments remain (all four FKs ON DELETE CASCADE)
CascadeAnswers(ans, tbls, qrs, qs, asg) ==
    {r \in ans : /\ r.table_id \in tbls
                 /\ r.qrcode_id \in QRIds(qrs)
                 /\ r.questionnaire_id \in qs
                 /\ r.assignment_id \in {a.id : a \in asg}}

----------------------------------------------------------------------------
(* Request slots *)

NoLoc ==
    [qrcode_id |-> 0, questionnaire_id |-> NULL, weight |-> 0, restaurant |-> NULL,
     table |-> NULL, new_id |-> 0, todo |-> {}, toAssign |-> {}, skipped |-> {},
     found |-> {}, assignment_id |-> 0]

\* what a finished request leaves behind: the call (op, args), whether it returned
\* ("ok") or which error it threw, and the value it returned
NoResult ==
    [op |-> "none", args |-> <<>>, status |-> "none",
     assignedCount |-> 0, skippedCount |-> 0, data |-> {}]

Res(op, args, status) == [NoResult EXCEPT !.op = op, !.args = args, !.status = status]

\* the request of slot p returns or throws: its locals are dropped
Finish(p, res) ==
    /\ result' = [result EXCEPT ![p] = res]
    /\ pc' = [pc EXCEPT ![p] = "idle"]
    /\ loc' = [loc EXCEPT ![p] = NoLoc]

\* the request of slot p goes on to its next store call
Goto(p, label, l) ==
    /\ pc' = [pc EXCEPT ![p] = label]
    /\ loc' = [loc EXCEPT ![p] = l]
    /\ UNCHANGED result

CanStart(p, bound) == pc[p] = "idle" /\ ncalls < bound

----------------------------------------------------------------------------
(* checkExistingAssignments / assignQuestionnaireToQRCode *)

checkExistingAssignmentsAnyFlag(asg, qrcodeId) ==
    {a \in asg : a.qrcode_id = qrcodeId}

\* the rows the query of checkExistingAssignments returns
checkExistingAssignments(asg, qrcodeId) ==
    {a \in asg : a.qrcode_id = qrcodeId /\ a.is_active}

hasAssignmentsMoreThanOne(asg, qrcodeId) ==
    Cardinality(checkExistingAssignments(asg, qrcodeId)) > 1

\* hasAssignments: data && data.length > 0
hasAssignments(asg, qrcodeId) == checkExistingAssignments(asg, qrcodeId) # {}

\* assignQuestionnaireToQRCode, first store call: the check
AssignSingleCheck(p, S, Q, w, bound) ==
    /\ CanStart(p, bound)
    /\ S \in QRIds(echo_qrcode)
    /\ ncalls' = ncalls + 1
    /\ IF hasAssignments(assignments, S)
         THEN Finish(p, Res("assignSingle", <<S, Q, w>>, "ConflictError"))
         ELSE Goto(p, "as_insert", [NoLoc EXCEPT !.qrcode_id = S, !.questionnaire_id = Q,
                                                 !.weight = w])
    /\ UNCHANGED <<storeVars, selVars, valVars>>

\* assignQuestionnaireToQRCode, second store call: the insert
AssignSingleInsert(p) ==
    /\ pc[p] = "as_insert"
    /\ LET l == loc[p]
           args == <<l.qrcode_id, l.questionnaire_id, l.weight>>
       IN IF InsertAllowed(assignments, echo_qrcode,
                           {<<l.qrcode_id, l.questionnaire_id>>})
            THEN /\ assignments' = assignments \cup
                        {NewRow(next_assignment_id, l.qrcode_id, l.questionnaire_id,
                                l.weight)}
                 /\ next_assignment_id' = next_assignment_id + 1
                 /\ Finish(p, [Res("assignSingle", args, "ok") EXCEPT
                                   !.assignedCount = 1])
            ELSE /\ UNCHANGED <<assignments, next_assignment_id>>
                 /\ Finish(p, Res("assignSingle", args, "InsertError"))
    /\ UNCHANGED <<catalogVars, answerVars, echo_qrcode, next_qrcode_id, q_active,
                   ncalls, selVars, valVars>>

----------------------------------------------------------------------------
(* assignQuestionnaireToRestaurant *)

\* number of elements of the set of integers S below x: the place of x in a batch
Rank(S, x) == Cardinality({y \in S : y < x})

tablesWithQRCodesAnyRestaurant(qrs, restaurantId) ==
    {<<c.table_id, c.id>> : c \in qrs}

\* tables.filter(...): the <<table, QR code id>> pairs of the tables of the
\* restaurant that have a QR code (echo_table joined with echo_qrcode!table_id)
tablesWithQRCodes(qrs, restaurantId) ==
    {<<c.table_id, c.id>> : c \in {d \in qrs : restaurant_id(d.table_id) = restaurantId}}

\* first store call: fetch the tables of the restaurant with their QR codes
BulkFetch(p, R, Q, w, bound) ==
    /\ CanStart(p, bound)
    /\ ncalls' = ncalls + 1
    /\ LET tables == {t \in echo_table : restaurant_id(t) = R}
           withQR == tablesWithQRCodes(echo_qrcode, R)
       IN IF tables = {}
            THEN Finish(p, Res("assignToRestaurant", <<R, Q, w>>, "NoTablesError"))
            ELSE IF withQR = {}
                   THEN Finish(p, Res("assignToRestaurant", <<R, Q, w>>, "NoQRCodesError"))
                   ELSE Goto(p, "ar_check",
                             [NoLoc EXCEPT !.restaurant = R, !.questionnaire_id = Q,
                                           !.weight = w, !.todo = withQR])
    /\ UNCHANGED <<storeVars, selVars, valVars>>

\* one turn of the for loop: checkExistingAssignments for the next table; after
\* the last table, the throw when nothing is left to assign
BulkCheck(p) ==
    /\ pc[p] = "ar_check"
    /\ \E e \in loc[p].todo :
         LET l == loc[p]
             has == hasAssignments(assignments, e[2])
             skipped == IF has THEN l.skipped \cup {e[1]} ELSE l.skipped
             toAssign == IF has THEN l.toAssign ELSE l.toAssign \cup {e[2]}
             todo == l.todo \ {e}
         IN IF todo = {} /\ toAssign = {}
              THEN Finish(p, [Res("assignToRestaurant",
                                  <<l.restaurant, l.questionnaire_id, l.weight>>,
                                  "AllAssignedError") EXCEPT
                                 !.skippedCount = Cardinality(skipped), !.data = skipped])
              ELSE Goto(p, IF todo = {} THEN "ar_insert" ELSE "ar_check",
                        [l EXCEPT !.todo = todo, !.skipped = skipped,
                                  !.toAssign = toAssign])
    /\ UNCHANGED <<storeVars, ncalls, selVars, valVars>>

\* last store call: one INSERT of all the new assignments
BulkInsert(p) ==
    /\ pc[p] = "ar_insert"
    /\ LET l == loc[p]
           args == <<l.restaurant, l.questionnaire_id, l.weight>>
       IN IF InsertAllowed(assignments, echo_qrcode,
                           {<<S, l.questionnaire_id>> : S \in l.toAssign})
            THEN /\ assignments' = assignments \cup
                        {NewRow(next_assignment_id + Rank(l.toAssign, S), S,
                                l.questionnaire_id, l.weight) : S \in l.toAssign}
                 /\ next_assignment_id' = next_assignment_id + Cardinality(l.toAssign)
                 /\ Finish(p, [Res("assignToRestaurant", args, "ok") EXCEPT
                                   !.assignedCount = Cardinality(l.toAssign),
                                   !.skippedCount = Cardinality(l.skipped),
                                   !.data = l.skipped])
            ELSE /\ UNCHANGED <<assignments, next_assignment_id>>
                 /\ Finish(p, Res("assignToRestaurant", args, "InsertError"))
    /\ UNCHANGED <<catalogVars, answerVars, echo_qrcode, next_qrcode_id, q_active,
                   ncalls, selVars, valVars>>

----------------------------------------------------------------------------
(* getQuestionnairesForRestaurant / generateQRCodeForTable / regenerateQRCodeForTable *)

\* the rows the query of getQuestionnairesForRestaurant returns: the active
\* assignments of the QR codes of the tables of the restaurant
restaurantAssignmentsAnyRestaurant(asg, qrs, restaurantId) ==
    {a \in asg : a.is_active /\ a.qrcode_id \in QRIds(qrs)}

restaurantAssignmentsAnyFlag(asg, qrs, restaurantId) ==
    {a \in asg : \E c \in qrs : c.id = a.qrcode_id /\ restaurant_id(c.table_id) = restaurantId}

restaurantAssignments(asg, qrs, restaurantId) ==
    {a \in asg : /\ a.is_active
                 /\ \E c \in qrs : /\ c.id = a.qrcode_id
                                   /\ restaurant_id(c.table_id) = restaurantId}

uniqueQuestionnairesPairs(data) ==
    {{[questionnaire_id |-> a.questionnaire_id, weight |-> a.weight] : a \in data}}

uniqueQuestionnairesOne(data) ==
    IF data = {} THEN {{}}
    ELSE {{[questionnaire_id |-> a.questionnaire_id, weight |-> a.weight]} : a \in data}

\* the values getQuestionnairesForRestaurant can return for these rows: one
\* {questionnaire_id, weight} per questionnaire, with the weight of the first row
\* of that questionnaire in the order the store returned the rows (the query has
\* no ORDER BY, so any of its rows can be the first)
uniqueQuestionnaires(data) ==
    {f \in SUBSET {[questionnaire_id |-> a.questionnaire_id, weight |-> a.weight] :
                      a \in data} :
        \A q \in {a.questionnaire_id : a \in data} :
            Cardinality({e \in f : e.questionnaire_id = q}) = 1}

\* the call a store call of generateQRCodeForTable belongs to
GenOp(l) == IF l.qrcode_id = 0 THEN "generate" ELSE "regenerate"
GenArgs(l) == IF l.qrcode_id = 0 THEN <<l.table>> ELSE <<l.table, l.qrcode_id>>

\* generateQRCodeForTable, first store call: the table's restaurant_id
GenFetchTable(p, t, bound) ==
    /\ CanStart(p, bound)
    /\ ncalls' = ncalls + 1
    /\ IF t \in echo_table
         THEN Goto(p, "gen_insert", [NoLoc EXCEPT !.table = t,
                                                  !.restaurant = restaurant_id(t)])
         ELSE Finish(p, Res("generate", <<t>>, "FetchError"))
    /\ UNCHANGED <<storeVars, selVars, valVars>>

\* the same store call, when regenerateQRCodeForTable calls generateQRCodeForTable
GenFetchTableAfterDelete(p) ==
    /\ pc[p] = "gen_fetch"
    /\ IF loc[p].table \in echo_table
         THEN Goto(p, "gen_insert",
                   [loc[p] EXCEPT !.restaurant = restaurant_id(loc[p].table)])
         ELSE Finish(p, Res(GenOp(loc[p]), GenArgs(loc[p]), "FetchError"))
    /\ UNCHANGED <<storeVars, ncalls, selVars, valVars>>

\* second store call: insert the QR code under a fresh id
GenInsertQR(p) ==
    /\ pc[p] = "gen_insert"
    /\ LET l == loc[p]
       IN IF QRInsertAllowed(echo_qrcode, l.table)
            THEN /\ echo_qrcode' = echo_qrcode \cup
                        {[id |-> next_qrcode_id, table_id |-> l.table]}
                 /\ Goto(p, "gen_lookup", [l EXCEPT !.new_id = next_qrcode_id])
            ELSE /\ UNCHANGED echo_qrcode
                 /\ Finish(p, Res(GenOp(l), GenArgs(l), "InsertError"))
    /\ next_qrcode_id' = next_qrcode_id + 1
    /\ UNCHANGED <<catalogVars, answerVars, assignments, next_assignment_id, q_active,
                   ncalls, selVars, valVars>>

\* third store call: getQuestionnairesForRestaurant
GenLookup(p) ==
    /\ pc[p] = "gen_lookup"
    /\ LET l == loc[p]
       IN \E found \in uniqueQuestionnaires(
                           restaurantAssignments(assignments, echo_qrcode, l.restaurant)) :
            IF found = {}
              THEN Finish(p, [Res(GenOp(l), GenArgs(l), "ok") EXCEPT !.data = {l.new_id}])
              ELSE Goto(p, "gen_assign", [l EXCEPT !.found = found])
    /\ UNCHANGED <<storeVars, ncalls, selVars, valVars>>

\* fourth store call: one INSERT of the propagated assignments; a rejected
\* INSERT is only logged
GenAssign(p) ==
    /\ pc[p] = "gen_assign"
    /\ LET l == loc[p]
           newId == l.new_id
           res == [Res(GenOp(l), GenArgs(l), "ok") EXCEPT !.data = {newId}]
       IN IF InsertAllowed(assignments, echo_qrcode,
                           {<<newId, e.questionnaire_id>> : e \in l.found})
            THEN /\ assignments' = assignments \cup
                        {NewRow(next_assignment_id
                                  + Rank({QIndex(x.questionnaire_id) : x \in l.found},
                                         QIndex(e.questionnaire_id)),
                                newId, e.questionnaire_id, e.weight) : e \in l.found}
                 /\ next_assignment_id' = next_assignment_id + Cardinality(l.found)
                 /\ Finish(p, [res EXCEPT !.assignedCount = Cardinality(l.found)])
            ELSE /\ UNCHANGED <<assignments, next_assignment_id>>
                 /\ Finish(p, res)
    /\ UNCHANGED <<catalogVars, answerVars, echo_qrcode, next_qrcode_id, q_active,
                   ncalls, selVars, valVars>>

\* regenerateQRCodeForTable, first store call: delete the old QR code
RegenDelete(p, t, oldId, bound) ==
    /\ CanStart(p, bound)
    /\ [id |-> oldId, table_id |-> t] \in echo_qrcode
    /\ ncalls' = ncalls + 1
    /\ echo_qrcode' = {c \in echo_qrcode : c.id # oldId}
    /\ assignments' = CascadeDeleteQR(assignments, oldId)
    /\ echo_answers' = CascadeAnswers(echo_answers, echo_table, echo_qrcode',
                                      echo_questionnaire, assignments')
    /\ Goto(p, "gen_fetch", [NoLoc EXCEPT !.table = t, !.qrcode_id = oldId])
    /\ UNCHANGED <<catalogVars, next_answer_id, next_qrcode_id, next_assignment_id, q_active,
                   selVars, valVars>>

----------------------------------------------------------------------------
(* deactivateAssignment / removeAssignment / removeRestaurantAssignments *)

deactivateRowNoTimestamp(a) == [a EXCEPT !.is_active = FALSE]

\* UPDATE ... SET is_active = false, deactivated_at = now() WHERE id = assignmentId
deactivateRow(a) == [a EXCEPT !.is_active = FALSE, !.deactivated_at = TRUE]

DeactivateAssignment(p, a, bound) ==
    /\ CanStart(p, bound)
    /\ a \in assignments
    /\ ncalls' = ncalls + 1
    /\ assignments' = (assignments \ {a}) \cup {deactivateRow(a)}
    /\ Finish(p, Res("deactivate", <<a.id>>, "ok"))
    /\ UNCHANGED <<catalogVars, answerVars, echo_qrcode, next_qrcode_id,
                   next_assignment_id, q_active, selVars, valVars>>

\* DELETE ... WHERE id = assignmentId
RemoveAssignment(p, a, bound) ==
    /\ CanStart(p, bound)
    /\ a \in assignments
    /\ ncalls' = ncalls + 1
    /\ assignments' = assignments \ {a}
    /\ echo_answers' = CascadeAnswers(echo_answers, echo_table, echo_qrcode,
                                      echo_questionnaire, assignments')
    /\ Finish(p, Res("remove", <<a.id>>, "ok"))
    /\ UNCHANGED <<catalogVars, next_answer_id, echo_qrcode, next_qrcode_id,
                   next_assignment_id, q_active, selVars, valVars>>

\* removeRestaurantAssignments, first store call: the QR codes of the restaurant
RemoveAllFetch(p, Q, R, bound) ==
    /\ CanStart(p, bound)
    /\ ncalls' = ncalls + 1
    /\ LET tables == {t \in echo_table : restaurant_id(t) = R}
           qrcodeIds == {e[2] : e \in tablesWithQRCodes(echo_qrcode, R)}
       IN IF tables = {} \/ qrcodeIds = {}
            THEN Finish(p, Res("removeAllForRestaurant", <<Q, R>>, "ok"))
            ELSE Goto(p, "rm_delete", [NoLoc EXCEPT !.restaurant = R, !.questionnaire_id = Q,
                                                   !.toAssign = qrcodeIds])
    /\ UNCHANGED <<storeVars, selVars, valVars>>

\* second store call: DELETE ... WHERE questionnaire_id = Q AND qrcode_id IN (...)
RemoveAllDelete(p) ==
    /\ pc[p] = "rm_delete"
    /\ LET l == loc[p]
           gone == {a \in assignments : /\ a.questionnaire_id = l.questionnaire_id
                                        /\ a.qrcode_id \in l.toAssign}
       IN /\ assignments' = assignments \ gone
          /\ echo_answers' = CascadeAnswers(echo_answers, echo_table, echo_qrcode,
                                            echo_questionnaire, assignments')
          /\ Finish(p, [Res("removeAllForRestaurant", <<l.questionnaire_id, l.restaurant>>,
                            "ok") EXCEPT !.assignedCount = Cardinality(gone)])
    /\ UNCHANGED <<catalogVars, next_answer_id, echo_qrcode, next_qrcode_id,
                   next_assignment_id, q_active, ncalls,
                   selVars, valVars>>

----------------------------------------------------------------------------
(* updateQuestionnaire / getQuestionnairesForQRCode *)

\* updateQuestionnaire(Q, {is_active: b})
UpdateQuestionnaire(p, Q, b, bound) ==
    /\ CanStart(p, bound)
    /\ Q \in echo_questionnaire
    /\ q_active[Q] # b
    /\ ncalls' = ncalls + 1
    /\ q_active' = [q_active EXCEPT ![Q] = b]
    /\ Finish(p, Res("updateQuestionnaire", <<Q>>, "ok"))
    /\ UNCHANGED <<catalogVars, answerVars, echo_qrcode, next_qrcode_id, assignments,
                   next_assignment_id, selVars, valVars>>

\* The query of getQuestionnairesForQRCode selects the rows of
\* echo_qrcode_questionnaire with qrcode_id = qrcodeId and is_active = true and
\* embeds echo_questionnaire(*) WITHOUT !inner: the filter
\* echo_questionnaire.is_active = true then applies to the embedded record only,
\* so a row whose questionnaire is inactive stays in data with
\* echo_questionnaire = null, and data.map(item => item.echo_questionnaire)
\* yields null for it.  The value is the set of the entries of the returned array.
getQuestionnairesForQRCode(asg, qact, qrcodeId) ==
    {IF qact[a.questionnaire_id] THEN a.questionnaire_id ELSE NULL :
        a \in {r \in asg : r.qrcode_id = qrcodeId /\ r.is_active}}

\* resolveForScan: the customer page fetches with getQuestionnairesForQRCode and
\* fails with NoActiveQuestionnaireError when the array it got is empty
ResolveForScan(p, S, bound) ==
    /\ CanStart(p, bound)
    /\ S \in QRIds(echo_qrcode)
    /\ ncalls' = ncalls + 1
    /\ LET data == getQuestionnairesForQRCode(assignments, q_active, S)
       IN Finish(p, [Res("resolveForScan", <<S>>,
                         IF data = {} THEN "NoActiveQuestionnaireError" ELSE "ok")
                       EXCEPT !.data = data])
    /\ UNCHANGED <<storeVars, selVars, valVars>>

----------------------------------------------------------------------------
(* The customer page: scan, answer, submit *)

scanAssignmentsAnyCode(asg, S) == {a \in asg : a.is_active /\ a.weight > 0}

\* the active assignments of the scanned QR code among which weightedRandomSelect
\* picks: the entries of positive weight
scanAssignments(asg, S) == {a \in asg : a.qrcode_id = S /\ a.is_active /\ a.weight > 0}

\* first store call of a scan: the active assignments of the scanned QR code, of
\* which weightedRandomSelect picks one
ScanFetch(p, S, bound) ==
    /\ CanStart(p, bound)
    /\ S \in QRIds(echo_qrcode)
    /\ ncalls' = ncalls + 1
    /\ LET data == scanAssignments(assignments, S)
           tableId == (CHOOSE c \in echo_qrcode : c.id = S).table_id
       IN IF data = {}
            THEN Finish(p, Res("submitResponse", <<S>>, "NoActiveQuestionnaireError"))
            ELSE \E selectedAssignment \in data :
                    Goto(p, "resp_insert",
                         [NoLoc EXCEPT !.qrcode_id = S, !.table = tableId,
                                       !.questionnaire_id = selectedAssignment.questionnaire_id,
                                       !.assignment_id = selectedAssignment.id])
    /\ UNCHANGED <<storeVars, selVars, valVars>>

\* a row of echo_answers; the answers themselves play no role
NewAnswer(id, l) ==
    [id |-> id, table_id |-> l.table, qrcode_id |-> l.qrcode_id,
     questionnaire_id |-> l.questionnaire_id, assignment_id |-> l.assignment_id]

\* echo_answers: the four FOREIGN KEYs of a new row
AnswerInsertAllowed(l) ==
    /\ l.table \in echo_table
    /\ l.qrcode_id \in QRIds(echo_qrcode)
    /\ l.questionnaire_id \in echo_questionnaire
    /\ l.assignment_id \in {a.id : a \in assignments}

\* second store call of a scan: on submit, insert the response
SubmitInsert(p) ==
    /\ pc[p] = "resp_insert"
    /\ LET l == loc[p]
       IN IF AnswerInsertAllowed(l)
            THEN /\ echo_answers' = echo_answers \cup {NewAnswer(next_answer_id, l)}
                 /\ next_answer_id' = next_answer_id + 1
                 /\ Finish(p, [Res("submitResponse", <<l.qrcode_id>>, "ok") EXCEPT
                                   !.data = {l.assignment_id}])
            ELSE /\ UNCHANGED answerVars
                 /\ Finish(p, Res("submitResponse", <<l.qrcode_id>>, "InsertError"))
    /\ UNCHANGED <<catalogVars, echo_qrcode, next_qrcode_id, assignments,
                   next_assignment_id, q_active, ncalls, selVars, valVars>>

----------------------------------------------------------------------------
(* Deletions made in the database, with their cascades *)

\* DELETE FROM echo_table WHERE id = t
DeleteTable(p, t, bound) ==
    /\ CanStart(p, bound)
    /\ t \in echo_table
    /\ ncalls' = ncalls + 1
    /\ echo_table' = echo_table \ {t}
    /\ echo_qrcode' = CascadeQRCodes(echo_qrcode, echo_table')
    /\ assignments' = CascadeAssignments(assignments, echo_qrcode', echo_questionnaire)
    /\ echo_answers' = CascadeAnswers(echo_answers, echo_table', echo_qrcode',
                                      echo_questionnaire, assignments')
    /\ Finish(p, Res("deleteTable", <<t>>, "ok"))
    /\ UNCHANGED <<echo_questionnaire, next_qrcode_id, next_assignment_id, q_active,
                   next_answer_id, selVars, valVars>>

\* DELETE FROM echo_questionnaire WHERE id = Q
DeleteQuestionnaire(p, Q, bound) ==
    /\ CanStart(p, bound)
    /\ Q \in echo_questionnaire
    /\ ncalls' = ncalls + 1
    /\ echo_questionnaire' = echo_questionnaire \ {Q}
    /\ assignments' = CascadeAssignments(assignments, echo_qrcode, echo_questionnaire')
    /\ echo_answers' = CascadeAnswers(echo_answers, echo_table, echo_qrcode,
                                      echo_questionnaire', assignments')
    /\ Finish(p, Res("deleteQuestionnaire", <<Q>>, "ok"))
    /\ UNCHANGED <<echo_table, echo_qrcode, next_qrcode_id, next_assignment_id, q_active,
                   next_answer_id, selVars, valVars>>

----------------------------------------------------------------------------
(* Store failures: a store call returns { error }, and the store is unchanged *)

\* if (error) throw new Error(...)
Throw(p, op, args) == Finish(p, Res(op, args, "StorageError"))

\* a request fails at its first store call
StartThrows(p, op, args, bound) ==
    /\ CanStart(p, bound)
    /\ ncalls' = ncalls + 1
    /\ Throw(p, op, args)
    /\ UNCHANGED <<storeVars, selVars, valVars>>

\* a running request fails at the store call it waits at
StepThrows(p, label, op, args) ==
    /\ pc[p] = label
    /\ Throw(p, op, args)
    /\ UNCHANGED <<storeVars, ncalls, selVars, valVars>>

\* checkExistingAssignments throws inside assignQuestionnaireToQRCode
AssignSingleCheckFails(p, S, Q, w, bound) ==
    S \in QRIds(echo_qrcode) /\ StartThrows(p, "assignSingle", <<S, Q, w>>, bound)

AssignSingleInsertFails(p) ==
    StepThrows(p, "as_insert", "assignSingle",
               <<loc[p].qrcode_id, loc[p].questionnaire_id, loc[p].weight>>)

BulkFetchFails(p, R, Q, w, bound) == StartThrows(p, "assignToRestaurant", <<R, Q, w>>, bound)

\* checkExistingAssignments throws inside the for loop
BulkCheckFails(p) ==
    StepThrows(p, "ar_check", "assignToRestaurant",
               <<loc[p].restaurant, loc[p].questionnaire_id, loc[p].weight>>)

BulkInsertFails(p) ==
    StepThrows(p, "ar_insert", "assignToRestaurant",
               <<loc[p].restaurant, loc[p].questionnaire_id, loc[p].weight>>)

GenFetchTableFails(p, t, bound) == StartThrows(p, "generate", <<t>>, bound)

\* regenerateQRCodeForTable: the old QR code is deleted, the fetch of the table fails
GenFetchTableAfterDeleteFails(p) ==
    StepThrows(p, "gen_fetch", GenOp(loc[p]), GenArgs(loc[p]))

\* the insert of the QR code fails; crypto.randomUUID() was called before it
GenInsertQRFails(p) ==
    /\ pc[p] = "gen_insert"
    /\ Throw(p, GenOp(loc[p]), GenArgs(loc[p]))
    /\ next_qrcode_id' = next_qrcode_id + 1
    /\ UNCHANGED <<catalogVars, answerVars, echo_qrcode, assignments, next_assignment_id,
                   q_active, ncalls, selVars, valVars>>

\* getQuestionnairesForRestaurant: if (error || ...) return [], and
\* generateQRCodeForTable goes on as if the restaurant had no assignment
GenLookupFails(p) ==
    /\ pc[p] = "gen_lookup"
    /\ Finish(p, [Res(GenOp(loc[p]), GenArgs(loc[p]), "ok") EXCEPT
                      !.data = {loc[p].new_id}])
    /\ UNCHANGED <<storeVars, ncalls, selVars, valVars>>

\* if (assignError) console.warn(...): the QR code is returned all the same
GenAssignFails(p) ==
    /\ pc[p] = "gen_assign"
    /\ Finish(p, [Res(GenOp(loc[p]), GenArgs(loc[p]), "ok") EXCEPT
                      !.data = {loc[p].new_id}])
    /\ UNCHANGED <<storeVars, ncalls, selVars, valVars>>

RegenDeleteFails(p, t, oldId, bound) ==
    /\ [id |-> oldId, table_id |-> t] \in echo_qrcode
    /\ StartThrows(p, "regenerate", <<t, oldId>>, bound)

DeactivateAssignmentFails(p, a, bound) ==
    a \in assignments /\ StartThrows(p, "deactivate", <<a.id>>, bound)

RemoveAssignmentFails(p, a, bound) ==
    a \in assignments /\ StartThrows(p, "remove", <<a.id>>, bound)

RemoveAllFetchFails(p, Q, R, bound) ==
    StartThrows(p, "removeAllForRestaurant", <<Q, R>>, bound)

RemoveAllDeleteFails(p) ==
    StepThrows(p, "rm_delete", "removeAllForRestaurant",
               <<loc[p].questionnaire_id, loc[p].restaurant>>)

UpdateQuestionnaireFails(p, Q, bound) ==
    Q \in echo_questionnaire /\ StartThrows(p, "updateQuestionnaire", <<Q>>, bound)

\* getQuestionnairesForQRCode throws
ResolveForScanFails(p, S, bound) ==
    S \in QRIds(echo_qrcode) /\ StartThrows(p, "resolveForScan", <<S>>, bound)

\* some store call of a request of slot p fails
FaultStep(p, bound) ==
    \/ \E S \in QRIds(echo_qrcode), Q \in Questionnaires, w \in Weights :
           AssignSingleCheckFails(p, S, Q, w, bound)
    \/ AssignSingleInsertFails(p)
    \/ \E R \in Restaurants, Q \in Questionnaires, w \in Weights :
           BulkFetchFails(p, R, Q, w, bound)
    \/ BulkCheckFails(p)
    \/ BulkInsertFails(p)
    \/ \E t \in Tables : GenFetchTableFails(p, t, bound)
    \/ GenFetchTableAfterDeleteFails(p)
    \/ GenInsertQRFails(p)
    \/ GenLookupFails(p)
    \/ GenAssignFails(p)
    \/ \E c \in echo_qrcode : RegenDeleteFails(p, c.table_id, c.id, bound)
    \/ \E a \in assignments : DeactivateAssignmentFails(p, a, bound)
    \/ \E a \in assignments : RemoveAssignmentFails(p, a, bound)
    \/ \E Q \in Questionnaires, R \in Restaurants : RemoveAllFetchFails(p, Q, R, bound)
    \/ RemoveAllDeleteFails(p)
    \/ \E Q \in Questionnaires : UpdateQuestionnaireFails(p, Q, bound)
    \/ \E S \in QRIds(echo_qrcode) : ResolveForScanFails(p, S, bound)

----------------------------------------------------------------------------
(* Weighted random selection *)

RECURSIVE SumTo(_, _)
\* cumulative weight of the first n entries
SumTo(ws, n) == IF n = 0 THEN 0 ELSE SumTo(ws, n - 1) + ws[n]

totalWeight(ws) == SumTo(ws, Len(ws))

RECURSIVE selectFromInclusive(_, _, _, _)
selectFromInclusive(ws, i, cum, r) ==
    IF i > Len(ws) THEN 0
    ELSE IF cum + ws[i] >= r THEN i
    ELSE selectFromInclusive(ws, i + 1, cum + ws[i], r)

RECURSIVE selectFrom(_, _, _, _)
\* walk the entries in order, adding up the weights, and stop at the first entry
\* whose cumulative weight exceeds the draw r; 0 when there is none
selectFrom(ws, i, cum, r) ==
    IF i > Len(ws) THEN 0
    ELSE IF cum + ws[i] > r THEN i
    ELSE selectFrom(ws, i + 1, cum + ws[i], r)

weightedRandomSelectInclusive(ws, r) == selectFromInclusive(ws, 1, 0, r)

\* index of the entry selected for the draw r
weightedRandomSelect(ws, r) == selectFrom(ws, 1, 0, r)

\* one draw of a uniform value in [0, totalWeight)
Draw ==
    /\ \E r \in 0..(totalWeight(sel_weights) - 1) :
          /\ sel_draw' = r
          /\ sel_out' = weightedRandomSelect(sel_weights, r)
    /\ UNCHANGED <<storeVars, pc, loc, result, ncalls, sel_weights, valVars>>

----------------------------------------------------------------------------
(* validateQuestions: the structure check of a questionnaire's questions *)

\* the strings of the model: the empty string, a string of white space only, and
\* strings with other characters
Ids == {"", "a"}
Texts == {"", " ", "t"}
Labels == {"", " ", "A"}
Types == {"multiple_choice", "text_input", "rating"}

\* String.prototype.trim on the strings of the model
trim(str) == IF str = " " THEN "" ELSE str

\* what validateQuestions returns: {valid: true}, or {valid: false, error} where
\* the message is kept as the number of the question and of the option it names
\* (0 when it names none) and its wording
NoVerdict == [valid |-> FALSE, question |-> 0, option |-> 0, error |-> "none"]
Valid == [valid |-> TRUE, question |-> 0, option |-> 0, error |-> ""]
Invalid(i, j, msg) == [valid |-> FALSE, question |-> i, option |-> j, error |-> msg]

\* number of options of a multiple-choice question
MinOptions == 2
MaxOptions == 5

optionCountOutOfRangeUpperOnly(n) == n > MaxOptions

\* q.options.length < 2 || q.options.length > 5
optionCountOutOfRange(n) == n < MinOptions \/ n > MaxOptions

RECURSIVE validateOptions(_, _, _)
\* the loop over the options of question i, from option j on; an option is
\* represented by its label, its value is not checked
validateOptions(options, i, j) ==
    IF j > Len(options) THEN Valid
    ELSE IF options[j] = "" \/ trim(options[j]) = ""
           THEN Invalid(i, j, "Label is required")
           ELSE validateOptions(options, i, j + 1)

\* a question is [id, text, type, has_options, options]: has_options tells whether
\* q.options is there at all, and options is <<>> when it is not

\* the body of the loop over the questions, for question i
validateQuestion(q, i) ==
    IF q.id = "" THEN Invalid(i, 0, "ID is required")
    ELSE IF q.text = "" \/ trim(q.text) = "" THEN Invalid(i, 0, "Text is required")
    ELSE IF q.type \notin {"multiple_choice", "text_input"}
           THEN Invalid(i, 0, "Type must be 'multiple_choice' or 'text_input'")
    ELSE IF q.type = "multiple_choice"
           THEN IF ~q.has_options
                  THEN Invalid(i, 0, "Multiple choice questions must have options")
                ELSE IF optionCountOutOfRange(Len(q.options))
                  THEN Invalid(i, 0, "Multiple choice must have 2-5 options")
                ELSE validateOptions(q.options, i, 1)
    ELSE Valid

RECURSIVE validateFrom(_, _)
\* the loop over the questions, from question i on
validateFrom(questions, i) ==
    IF i > Len(questions) THEN Valid
    ELSE LET v == validateQuestion(questions[i], i)
         IN IF v.valid THEN validateFrom(questions, i + 1) ELSE v

validateQuestions(questions) ==
    IF Len(questions) = 0
      THEN Invalid(0, 0, "At least one question is required")
      ELSE validateFrom(questions, 1)

\* the editor validates the questions before saving
Validate ==
    /\ val_result = NoVerdict
    /\ val_result' = validateQuestions(val_questions)
    /\ UNCHANGED <<storeVars, pc, loc, result, ncalls, selVars, val_questions>>

----------------------------------------------------------------------------
(* Specifications *)

\* Tables t1, t2 (restaurant r1) and t4 (restaurant r2) have their QR code, table
\* t3 (restaurant r1) has none yet; no questionnaire is assigned anywhere
StoreInit ==
    /\ echo_table = Tables
    /\ echo_questionnaire = Questionnaires
    /\ echo_answers = {}
    /\ next_answer_id = 1
    /\ echo_qrcode = {[id |-> 1, table_id |-> "t1"], [id |-> 2, table_id |-> "t2"],
                      [id |-> 3, table_id |-> "t4"]}
    /\ next_qrcode_id = 4
    /\ assignments = {}
    /\ next_assignment_id = 1
    /\ q_active = [q \in Questionnaires |-> TRUE]
    /\ pc = [p \in Procs |-> "idle"]
    /\ loc = [p \in Procs |-> NoLoc]
    /\ result = [p \in Procs |-> NoResult]
    /\ ncalls = 0

Init ==
    /\ StoreInit
    /\ sel_weights = <<>>
    /\ sel_draw = -1
    /\ sel_out = 0
    /\ val_questions = <<>>
    /\ val_result = NoVerdict

ProcStep(p, bound) ==
    \/ \E S \in QRIds(echo_qrcode), Q \in Questionnaires, w \in Weights :
           AssignSingleCheck(p, S, Q, w, bound)
    \/ AssignSingleInsert(p)
    \/ \E R \in Restaurants, Q \in Questionnaires, w \in Weights :
           BulkFetch(p, R, Q, w, bound)
    \/ BulkCheck(p)
    \/ BulkInsert(p)
    \/ \E t \in Tables : GenFetchTable(p, t, bound)
    \/ GenFetchTableAfterDelete(p)
    \/ GenInsertQR(p)
    \/ GenLookup(p)
    \/ GenAssign(p)
    \/ \E c \in echo_qrcode : RegenDelete(p, c.table_id, c.id, bound)
    \/ \E a \in assignments : DeactivateAssignment(p, a, bound)
    \/ \E a \in assignments : RemoveAssignment(p, a, bound)
    \/ \E Q \in Questionnaires, R \in Restaurants : RemoveAllFetch(p, Q, R, bound)
    \/ RemoveAllDelete(p)
    \/ \E Q \in Questionnaires, b \in BOOLEAN : UpdateQuestionnaire(p, Q, b, bound)
    \/ \E S \in QRIds(echo_qrcode) : ResolveForScan(p, S, bound)

\* requests interleave between their store calls
Next == \E p \in Procs : ProcStep(p, MaxCalls)

Spec == Init /\ [][Next]_vars

\* requests do not overlap: one request at a time
NextSeq == ProcStep(1, MaxCallsSeq)

SpecSeq == Init /\ [][NextSeq]_vars

\* requests that do not overlap, any store call of which may fail
NextFault == ProcStep(1, MaxCallsFault) \/ FaultStep(1, MaxCallsFault)

SpecFault == Init /\ [][NextFault]_vars

\* requests that do not overlap, the callers passing any number as the weight
NextWeight ==
    \/ \E S \in QRIds(echo_qrcode), Q \in Questionnaires, w \in AnyWeights :
           AssignSingleCheck(1, S, Q, w, MaxCallsWeight)
    \/ AssignSingleInsert(1)
    \/ \E R \in Restaurants, Q \in Questionnaires, w \in AnyWeights :
           BulkFetch(1, R, Q, w, MaxCallsWeight)
    \/ BulkCheck(1)
    \/ BulkInsert(1)
    \/ \E a \in assignments : DeactivateAssignment(1, a, MaxCallsWeight)
    \/ \E a \in assignments : RemoveAssignment(1, a, MaxCallsWeight)

SpecWeight == Init /\ [][NextWeight]_vars

\* requests that do not overlap, with customers submitting responses and with
\* tables and questionnaires being deleted
CascadeStep(p, bound) ==
    \/ \E S \in QRIds(echo_qrcode), Q \in Questionnaires, w \in Weights :
           AssignSingleCheck(p, S, Q, w, bound)
    \/ AssignSingleInsert(p)
    \/ \E S \in QRIds(echo_qrcode) : ScanFetch(p, S, bound)
    \/ SubmitInsert(p)
    \/ \E a \in assignments : DeactivateAssignment(p, a, bound)
    \/ \E a \in assignments : RemoveAssignment(p, a, bound)
    \/ \E Q \in Questionnaires, R \in Restaurants : RemoveAllFetch(p, Q, R, bound)
    \/ RemoveAllDelete(p)
    \/ \E t \in Tables : GenFetchTable(p, t, bound)
    \/ \E c \in echo_qrcode : RegenDelete(p, c.table_id, c.id, bound)
    \/ GenFetchTableAfterDelete(p)
    \/ GenInsertQR(p)
    \/ GenLookup(p)
    \/ GenAssign(p)
    \/ \E t \in Tables : DeleteTable(p, t, bound)
    \/ \E Q \in Questionnaires : DeleteQuestionnaire(p, Q, bound)

NextCascade == CascadeStep(1, MaxCallsCascade)

SpecCascade == Init /\ [][NextCascade]_vars

\* weighted selection alone: the eligible Assignments of a ScanCode carry any
\* weights 0..MaxSelWeight with a positive total, and draws are made
SelInputs ==
    {ws \in UNION {[1..n -> 0..MaxSelWeight] : n \in 1..MaxSelLen} : totalWeight(ws) > 0}

InitSelect ==
    /\ StoreInit
    /\ sel_weights \in SelInputs
    /\ sel_draw = -1
    /\ sel_out = 0
    /\ val_questions = <<>>
    /\ val_result = NoVerdict

NextSelect == Draw

SpecSelect == InitSelect /\ [][NextSelect]_vars

\* the manual operations alone, one request at a time: no QR code is generated
\* or regenerated
NextManual ==
    \/ \E S \in QRIds(echo_qrcode), Q \in Questionnaires, w \in Weights :
           AssignSingleCheck(1, S, Q, w, MaxCallsManual)
    \/ AssignSingleInsert(1)
    \/ \E R \in Restaurants, Q \in Questionnaires, w \in Weights :
           BulkFetch(1, R, Q, w, MaxCallsManual)
    \/ BulkCheck(1)
    \/ BulkInsert(1)
    \/ \E a \in assignments : DeactivateAssignment(1, a, MaxCallsManual)
    \/ \E a \in assignments : RemoveAssignment(1, a, MaxCallsManual)
    \/ \E Q \in Questionnaires, R \in Restaurants :
           RemoveAllFetch(1, Q, R, MaxCallsManual)
    \/ RemoveAllDelete(1)

SpecManual == Init /\ [][NextManual]_vars

\* the option lists of the questions validated: n labels, those before the j-th
\* filled in, the j-th empty and those after it white space
OptionLists ==
    {[k \in 1..n |-> IF k < j THEN "A" ELSE IF k = j THEN "" ELSE " "] :
        n \in 0..MaxOptionCount, j \in 1..(MaxOptionCount + 1)}

\* the questions validated: every combination of id, text and type without
\* options, and well-formed questions of either type with each option list
ValQuestions ==
    {[id |-> i, text |-> t, type |-> ty, has_options |-> FALSE, options |-> <<>>] :
        i \in Ids, t \in Texts, ty \in Types}
    \cup {[id |-> "a", text |-> "t", type |-> "multiple_choice", has_options |-> TRUE,
           options |-> o] : o \in OptionLists}
    \cup {[id |-> "a", text |-> "t", type |-> "text_input", has_options |-> TRUE,
           options |-> o] : o \in {<<>>, <<"">>}}

ValInputs == UNION {[1..n -> ValQuestions] : n \in 0..MaxQuestions}

InitValidate ==
    /\ StoreInit
    /\ sel_weights = <<>>
    /\ sel_draw = -1
    /\ sel_out = 0
    /\ val_questions \in ValInputs
    /\ val_result = NoVerdict

NextValidate == Validate

SpecValidate == InitValidate /\ [][NextValidate]_vars

----------------------------------------------------------------------------
(* Vocabulary of the properties, stated on the store alone *)

\* the active Assignments of ScanCode S
ActiveOn(asg, S) == {a \in asg : a.qrcode_id = S /\ a.is_active}

\* the ScanCodes of the tables of restaurant R
CodesOf(qrs, R) == {c.id : c \in {d \in qrs : restaurant_id(d.table_id) = R}}

\* an Assignment without its primary key
Content(a) == <<a.qrcode_id, a.questionnaire_id, a.weight, a.is_active>>

----------------------------------------------------------------------------
(* Properties *)

\* C1: assignSingle on a ScanCode that has an active Assignment ends at its check
\* with the conflict error and leaves the Assignments as they are.
C1_AssignSingleConflict ==
    [][\A p \in Procs :
          (pc[p] = "idle" /\ ncalls' # ncalls) =>
             \A S \in {c \in QRIds(echo_qrcode) : ActiveOn(assignments, c) # {}} :
                \A Q \in Questionnaires, w \in Weights :
                   AssignSingleCheck(p, S, Q, w, MaxCalls)
                      => /\ pc'[p] = "idle"
                         /\ result'[p].op = "assignSingle"
                         /\ result'[p].status = "ConflictError"
                         /\ assignments' = assignments]_vars

C1_Witness ==
    \E p \in Procs :
        /\ result[p].op = "assignSingle"
        /\ result[p].status = "ConflictError"
        /\ ActiveOn(assignments, result[p].args[1]) # {}

\* C2: two assignSingle calls on the same ScanCode never both succeed and leave
\* the ScanCode with two active Assignments.
C2_ConcurrentAssignSingle ==
    \A p, q \in Procs :
        (/\ p # q
         /\ result[p].op = "assignSingle" /\ result[p].status = "ok"
         /\ result[q].op = "assignSingle" /\ result[q].status = "ok"
         /\ result[p].args[1] = result[q].args[1])
            => Cardinality(ActiveOn(assignments, result[p].args[1])) <= 1

\* C3: when some ScanCode of the restaurant has no active Assignment,
\* assignToRestaurant(R, Q, w) creates one active Assignment (Q, w) on exactly the
\* ScanCodes of R without an active Assignment and returns the two counts.
C3_BulkAssignsUnassigned ==
    [][BulkInsert(1) =>
         LET R == loc[1].restaurant
             codes == CodesOf(echo_qrcode, R)
             free == {S \in codes : ActiveOn(assignments, S) = {}}
             created == assignments' \ assignments
         IN /\ free # {}
            /\ assignments \subseteq assignments'
            /\ Cardinality(created) = Cardinality(free)
            /\ {Content(a) : a \in created} =
                   {<<S, loc[1].questionnaire_id, loc[1].weight, TRUE>> : S \in free}
            /\ result'[1].status = "ok"
            /\ result'[1].assignedCount = Cardinality(created)
            /\ result'[1].skippedCount = Cardinality(codes \ free)
            /\ result'[1].assignedCount + result'[1].skippedCount = Cardinality(codes)]_vars

\* C4: assignToRestaurant throws the all-assigned error only when every ScanCode
\* of the restaurant has an active Assignment, and up to that throw it has
\* changed no Assignment.
C4_AllAssignedOnlyIfAll ==
    [][BulkCheck(1) =>
         /\ assignments' = assignments
         /\ pc'[1] = "idle" =>
              /\ result'[1].status = "AllAssignedError"
              /\ \A S \in CodesOf(echo_qrcode, loc[1].restaurant) :
                     ActiveOn(assignments, S) # {}]_vars

C4_Witness ==
    /\ pc[1] = "idle"
    /\ result[1].op = "assignToRestaurant"
    /\ result[1].status = "AllAssignedError"
    /\ result[1].skippedCount = 2
    /\ \A S \in CodesOf(echo_qrcode, result[1].args[1]) : ActiveOn(assignments, S) # {}

\* a run of assignToRestaurant ends right after a successful run with the same
\* arguments (result[1] still holds what the previous request returned)
SecondBulkRunEnds ==
    /\ BulkCheck(1) \/ BulkInsert(1)
    /\ pc'[1] = "idle"
    /\ result[1].op = "assignToRestaurant"
    /\ result[1].status = "ok"
    /\ result'[1].args = result[1].args

\* C5 as stated: the second run creates nothing and returns assignedCount = 0
\* with every table skipped.
C5_SecondRunReturnsZero ==
    [][SecondBulkRunEnds =>
         /\ assignments' = assignments
         /\ result'[1].status = "ok"
         /\ result'[1].assignedCount = 0
         /\ result'[1].skippedCount =
                Cardinality(CodesOf(echo_qrcode, result[1].args[1]))]_vars

\* C5 amended: the second run creates nothing and throws the all-assigned error,
\* having skipped every table of the restaurant that has a ScanCode.
C5_SecondRunAllAssigned ==
    [][SecondBulkRunEnds =>
         /\ assignments' = assignments
         /\ result'[1].status = "AllAssignedError"
         /\ result'[1].assignedCount = 0
         /\ result'[1].skippedCount =
                Cardinality(CodesOf(echo_qrcode, result[1].args[1]))]_vars

\* two requests were made, the second one threw the all-assigned error for
\* restaurant r1, and both ScanCodes of r1 carry the Assignment of its arguments:
\* the first request was the same assignToRestaurant
C5_Witness ==
    /\ ncalls = 2
    /\ pc[1] = "idle"
    /\ result[1].op = "assignToRestaurant"
    /\ result[1].status = "AllAssignedError"
    /\ result[1].args[1] = "r1"
    /\ {Content(a) : a \in assignments} =
           {<<S, result[1].args[2], result[1].args[3], TRUE>> :
               S \in CodesOf(echo_qrcode, "r1")}

\* generateQRCodeForTable returns: the (questionnaire, weight) pairs on the active
\* Assignments of the other ScanCodes of the restaurant
PairsOfOthers ==
    {<<a.questionnaire_id, a.weight>> :
        a \in {b \in assignments :
                 /\ b.is_active
                 /\ b.qrcode_id # loc[1].new_id
                 /\ b.qrcode_id \in CodesOf(echo_qrcode, restaurant_id(loc[1].table))}}

ProvisioningEnds == (GenLookup(1) \/ GenAssign(1)) /\ pc'[1] = "idle"

C7_PropagationRestaurantScoped ==
    [][\A p \in Procs :
          /\ GenLookup(p) =>
               \A e \in loc'[p].found :
                   \E a \in assignments :
                       /\ a.is_active
                       /\ a.questionnaire_id = e.questionnaire_id
                       /\ a.qrcode_id \in CodesOf(echo_qrcode, restaurant_id(loc[p].table))
          /\ GenAssign(p) =>
               \A a \in assignments' \ assignments :
                   /\ a.qrcode_id = loc[p].new_id
                   /\ a.questionnaire_id \in {e.questionnaire_id : e \in loc[p].found}]_vars

\* slot 1 made both requests; the second provisioned table t3 of restaurant r1
\* while the only active Assignment was on the ScanCode of restaurant r2, and the
\* new ScanCode got nothing
C7_Witness ==
    /\ result[2].op = "none" /\ pc[2] = "idle"
    /\ pc[1] = "idle"
    /\ result[1].op = "generate"
    /\ result[1].status = "ok"
    /\ result[1].args = <<"t3">>
    /\ \E a \in assignments : a.is_active /\ a.qrcode_id \in CodesOf(echo_qrcode, "r2")
    /\ \A a \in assignments : a.qrcode_id \notin result[1].data

\* C8: every entry resolution returns for a ScanCode is a questionnaire with
\* active = true reached through an active Assignment of that ScanCode; no null
\* entry stands in for an inactive questionnaire.
C8_ResolveOnlyActive ==
    [][\A S \in QRIds(echo_qrcode) :
          ResolveForScan(1, S, MaxCallsSeq) =>
              \A e \in result'[1].data :
                  /\ e # NULL
                  /\ q_active[e]
                  /\ \E a \in ActiveOn(assignments, S) : a.questionnaire_id = e]_vars

\* C9: resolveForScan fails with NoActiveQuestionnaireError exactly when the
\* ScanCode has no active Assignment to an active Questionnaire.
C9_NoActiveExactly ==
    [][\A S \in QRIds(echo_qrcode) :
          ResolveForScan(1, S, MaxCallsSeq) =>
              (result'[1].status = "NoActiveQuestionnaireError"
                 <=> ~ \E a \in ActiveOn(assignments, S) : q_active[a.questionnaire_id])]_vars

\* C10: every draw 0 <= r < totalWeight selects exactly one entry, the first whose
\* cumulative weight exceeds r; the number of draws that select an entry equals
\* its weight, so an entry of weight 0 is selected for no draw.
C10_WeightedSelection ==
    LET ws == sel_weights
        total == totalWeight(ws)
    IN /\ \A r \in 0..(total - 1) :
            LET i == weightedRandomSelect(ws, r)
            IN /\ i \in 1..Len(ws)
               /\ SumTo(ws, i) > r
               /\ \A j \in 1..(i - 1) : SumTo(ws, j) <= r
       /\ \A i \in 1..Len(ws) :
            Cardinality({r \in 0..(total - 1) : weightedRandomSelect(ws, r) = i}) = ws[i]
       /\ sel_draw >= 0 => sel_out = weightedRandomSelect(ws, sel_draw) /\ ws[sel_out] > 0

\* a draw was made among entries one of which has weight 0
C10_Witness ==
    /\ sel_draw >= 0
    /\ Len(sel_weights) >= 2
    /\ \E i \in 1..Len(sel_weights) : sel_weights[i] = 0
    /\ sel_out \in 1..Len(sel_weights)

\* C11: when assignSingle(S, Q, w) has succeeded for an active questionnaire Q, the
\* next request, resolveForScan(S), does not fail with NoActiveQuestionnaireError
\* and every entry it returns is an active questionnaire that an active
\* Assignment of S points to.
C11_ReadAfterWrite ==
    [][\A S \in QRIds(echo_qrcode) :
          (/\ result[1].op = "assignSingle"
           /\ result[1].status = "ok"
           /\ result[1].args[1] = S
           /\ q_active[result[1].args[2]]
           /\ ResolveForScan(1, S, MaxCallsSeq))
             => /\ result'[1].status = "ok"
                /\ result[1].args[2] \in result'[1].data
                /\ \A e \in result'[1].data :
                       /\ e # NULL
                       /\ q_active[e]
                       /\ \E a \in ActiveOn(assignments, S) : a.questionnaire_id = e]_vars

\* two requests were made; the second resolved ScanCode 1 of restaurant r1, whose
\* single Assignment is the only one in the store, so the first request was the
\* assignSingle that created it
C11_Witness ==
    /\ ncalls = 2
    /\ result[1].op = "resolveForScan"
    /\ result[1].args = <<1>>
    /\ result[1].status = "ok"
    /\ Cardinality(assignments) = 1
    /\ \A a \in assignments : a.qrcode_id = 1 /\ a.questionnaire_id \in result[1].data

\* C12: in every reachable state, whatever requests ran and however they
\* interleaved, no two Assignments (active or not) have the same ScanCode and the
\* same Questionnaire.
C12_OnePerPair ==
    \A a, b \in assignments :
        (a.qrcode_id = b.qrcode_id /\ a.questionnaire_id = b.questionnaire_id) => a = b

\* an assignSingle passed its check and had its insert rejected, and the
\* Assignment of that ScanCode to that Questionnaire is in the store
C12_Witness ==
    \E p \in Procs :
        /\ result[p].op = "assignSingle"
        /\ result[p].status = "InsertError"
        /\ \E a \in assignments :
               /\ a.qrcode_id = result[p].args[1]
               /\ a.questionnaire_id = result[p].args[2]

\* every Assignment references an existing ScanCode and Questionnaire, every
\* Response an existing Table, ScanCode, Questionnaire and Assignment
RefsIntact(tbls, qs, qrs, asg, ans) ==
    /\ \A c \in qrs : c.table_id \in tbls
    /\ \A a \in asg : a.qrcode_id \in {c.id : c \in qrs} /\ a.questionnaire_id \in qs
    /\ \A r \in ans : /\ r.table_id \in tbls
                       /\ r.qrcode_id \in {c.id : c \in qrs}
                       /\ r.questionnaire_id \in qs
                       /\ r.assignment_id \in {a.id : a \in asg}

\* C13: deleting a Table removes its ScanCode, the Assignments of that ScanCode
\* and the Responses referencing the Table, and nothing else; deleting a
\* Questionnaire removes the Assignments and Responses referencing it, and nothing
\* else; and after every step all references are intact.
C13_CascadeKeepsReferences ==
    [][/\ RefsIntact(echo_table, echo_questionnaire, echo_qrcode, assignments,
                     echo_answers)
       /\ RefsIntact(echo_table', echo_questionnaire', echo_qrcode', assignments',
                     echo_answers')
       /\ \A t \in Tables :
             DeleteTable(1, t, MaxCallsCascade) =>
                LET codes == {c \in echo_qrcode : c.table_id = t}
                    gone == {a \in assignments : a.qrcode_id \in {c.id : c \in codes}}
                IN /\ echo_qrcode' = echo_qrcode \ codes
                   /\ assignments' = assignments \ gone
                   /\ echo_answers' = {r \in echo_answers : r.table_id # t}
       /\ \A Q \in Questionnaires :
             DeleteQuestionnaire(1, Q, MaxCallsCascade) =>
                /\ echo_qrcode' = echo_qrcode
                /\ assignments' = {a \in assignments : a.questionnaire_id # Q}
                /\ echo_answers' = {r \in echo_answers : r.questionnaire_id # Q}]_vars

\* an Assignment was created, a Response was recorded for it, and the third
\* request deleted the Table: the ScanCode, the Assignment and the Response are gone
C13_Witness ==
    /\ ncalls = 3
    /\ result[1].op = "deleteTable"
    /\ next_assignment_id = 2
    /\ next_answer_id = 2
    /\ assignments = {}
    /\ echo_answers = {}
    /\ Cardinality(echo_qrcode) = 2

\* C14: deactivate, remove and removeAllForRestaurant leave every recorded
\* Response in place, with its fields unchanged.
C14_ResponsesKept ==
    [][(\/ \E a \in assignments : DeactivateAssignment(1, a, MaxCallsCascade)
        \/ \E a \in assignments : RemoveAssignment(1, a, MaxCallsCascade)
        \/ RemoveAllDelete(1))
          => echo_answers' = echo_answers]_vars

\* C15: deactivate(a) keeps the record a with its ScanCode, Questionnaire and
\* weight, sets its active flag to false and its deactivation timestamp, and
\* changes no other Assignment.
C15_DeactivateFrame ==
    [][\A a \in assignments :
          DeactivateAssignment(1, a, MaxCallsCascade) =>
             \E b \in assignments' :
                /\ b.id = a.id
                /\ b.qrcode_id = a.qrcode_id
                /\ b.questionnaire_id = a.questionnaire_id
                /\ b.weight = a.weight
                /\ ~b.is_active
                /\ b.deactivated_at
                /\ assignments' \ {b} = assignments \ {a}]_vars

\* the last request deactivated an Assignment, which is still in the store with
\* its flag off and its timestamp set, and another Assignment is still active
C15_Witness ==
    /\ result[1].op = "deactivate"
    /\ \E b \in assignments : b.id = result[1].args[1] /\ ~b.is_active /\ b.deactivated_at
    /\ \E c \in assignments : c.is_active

\* C16: removeAllForRestaurant(Q, R) deletes exactly the Assignments of
\* questionnaire Q on the ScanCodes of R's tables and returns their number (0 when
\* R has no table or no ScanCode); remove(a) deletes exactly a.
C16_RemoveExactly ==
    [][/\ RemoveAllDelete(1) =>
             LET target == {a \in assignments :
                              /\ a.questionnaire_id = loc[1].questionnaire_id
                              /\ a.qrcode_id \in CodesOf(echo_qrcode, loc[1].restaurant)}
             IN /\ assignments' = assignments \ target
                /\ result'[1].status = "ok"
                /\ result'[1].assignedCount = Cardinality(target)
       /\ \A Q \in Questionnaires, R \in Restaurants :
             (RemoveAllFetch(1, Q, R, MaxCallsCascade) /\ pc'[1] = "idle") =>
                /\ CodesOf(echo_qrcode, R) = {}
                /\ assignments' = assignments
                /\ result'[1].status = "ok"
                /\ result'[1].assignedCount = 0
       /\ \A a \in assignments :
             RemoveAssignment(1, a, MaxCallsCascade) => assignments' = assignments \ {a}]_vars

\* the third request removed the Assignments of a questionnaire in restaurant r1
\* and returned 1, and the Assignment on the ScanCode of restaurant r2 is still there
C16_Witness ==
    /\ ncalls = 3
    /\ result[1].op = "removeAllForRestaurant"
    /\ result[1].args[2] = "r1"
    /\ result[1].assignedCount = 1
    /\ Cardinality(assignments) = 1
    /\ \A a \in assignments : a.qrcode_id \in CodesOf(echo_qrcode, "r2")

\* C17: a request in which a store call reported an error ends at that call and
\* returns an error to its caller.
C17_FailureSurfaced ==
    [][FaultStep(1, MaxCallsFault) =>
          /\ pc'[1] = "idle"
          /\ result'[1].status # "ok"]_vars

\* C18: when a store call of provisioning, regeneration or bulk assignment
\* reports an error, the request ends there and has left nothing behind: no
\* Assignment created, the ScanCode it created is not in the store, and the
\* ScanCode it deleted still is.
C18_AllOrNothing ==
    [][(/\ FaultStep(1, MaxCallsFault)
        /\ pc[1] \in {"gen_fetch", "gen_insert", "gen_lookup", "gen_assign",
                      "ar_check", "ar_insert"})
          => /\ pc'[1] = "idle"
             /\ assignments' = assignments
             /\ loc[1].new_id # 0 => loc[1].new_id \notin QRIds(echo_qrcode')
             /\ loc[1].qrcode_id # 0 =>
                    [id |-> loc[1].qrcode_id, table_id |-> loc[1].table] \in echo_qrcode']_vars

\* C19: every Assignment in the store has a positive weight, whatever weight the
\* callers of assignSingle and assignToRestaurant passed.
C19_PositiveWeights ==
    \A a \in assignments : a.weight > 0

\* a regeneration ends
RegenerationEnds ==
    /\ GenLookup(1) \/ GenAssign(1)
    /\ pc'[1] = "idle"
    /\ loc[1].qrcode_id # 0

OneCodePerTable(tbls, qrs) ==
    /\ \A c, d \in qrs : (c.table_id = d.table_id \/ c.id = d.id) => c = d
    /\ \A c \in qrs : c.table_id \in tbls

\* C21: after every step each Table has at most one ScanCode and each ScanCode
\* belongs to exactly one Table; a provisioning call that finds the Table already
\* has a ScanCode is rejected at its insert, ends there and creates nothing.
C21_OneCodePerTable ==
    [][/\ OneCodePerTable(echo_table, echo_qrcode)
       /\ OneCodePerTable(echo_table', echo_qrcode')
       /\ \A p \in Procs :
             (/\ pc[p] = "gen_insert"
              /\ \E c \in echo_qrcode : c.table_id = loc[p].table
              /\ GenInsertQR(p))
                => /\ pc'[p] = "idle"
                   /\ result'[p].status = "InsertError"
                   /\ echo_qrcode' = echo_qrcode
                   /\ assignments' = assignments]_vars

\* two provisioning calls for table t3 interleaved: one created the ScanCode, the
\* other was rejected
C21_Witness ==
    \E p, q \in Procs :
        /\ result[p].op = "generate" /\ result[p].args = <<"t3">>
        /\ result[p].status = "ok"
        /\ result[q].op = "generate" /\ result[q].args = <<"t3">>
        /\ result[q].status = "InsertError"
        /\ Cardinality({c \in echo_qrcode : c.table_id = "t3"}) = 1

C23_PropagationStacks ==
    [][(/\ pc[1] = "gen_assign"
        /\ GenAssign(1)
        /\ Cardinality({pr[1] : pr \in PairsOfOthers}) >= 2)
          => /\ result'[1].status = "ok"
             /\ result'[1].assignedCount >= 2
             /\ assignments' # assignments
             /\ Cardinality(ActiveOn(assignments', loc[1].new_id)) >= 2]_vars

\* after two manual assignments to the ScanCodes of t1 and t2 and one
\* provisioning, the provisioned ScanCode carries two active Assignments while
\* the two older ScanCodes carry one each
C23_Witness ==
    /\ ncalls = 3
    /\ result[1].op = "generate"
    /\ \E c \in echo_qrcode :
           /\ c.id \in result[1].data
           /\ Cardinality(ActiveOn(assignments, c.id)) = 2
    /\ Cardinality(ActiveOn(assignments, 1)) = 1
    /\ Cardinality(ActiveOn(assignments, 2)) = 1

\* C24: when an assignToRestaurant call and another assignSingle or
\* assignToRestaurant call have both succeeded, no ScanCode of the restaurant
\* holds an active Assignment of the bulk call next to an active Assignment of
\* the other call.
C24_BulkNeverStacks ==
    \A p, q \in Procs :
        (/\ p # q
         /\ result[p].op = "assignToRestaurant" /\ result[p].status = "ok"
         /\ result[q].op \in {"assignSingle", "assignToRestaurant"}
         /\ result[q].status = "ok")
            => \A S \in CodesOf(echo_qrcode, result[p].args[1]) :
                   Cardinality(ActiveOn(assignments, S)) <= 1

\* the questions validateQuestions is to accept, in the words of the contract:
\* a non-empty id, a text that is not blank, one of the two types and, for a
\* multiple-choice question, 2 to 5 options whose labels are not blank
Blank(str) == str \in {"", " "}
BlankOptions(q) == {j \in 1..Len(q.options) : Blank(q.options[j])}
WellFormed(q) ==
    /\ q.id # ""
    /\ ~Blank(q.text)
    /\ q.type \in {"multiple_choice", "text_input"}
    /\ q.type = "multiple_choice" =>
           /\ q.has_options
           /\ Len(q.options) \in 2..5
           /\ BlankOptions(q) = {}
Offending(questions) == {i \in 1..Len(questions) : ~WellFormed(questions[i])}
Least(S) == CHOOSE x \in S : \A y \in S : x <= y

C26_ReassignAfterDeactivate ==
    [][\A S \in QRIds(echo_qrcode) :
          LET rows == {a \in assignments : a.qrcode_id = S}
          IN (rows # {} /\ ActiveOn(assignments, S) = {}) =>
               /\ \A Q \in Questionnaires, w \in Weights :
                      AssignSingleCheck(1, S, Q, w, MaxCallsSeq) => pc'[1] = "as_insert"
               /\ (pc[1] = "as_insert" /\ loc[1].qrcode_id = S /\ AssignSingleInsert(1)) =>
                      IF loc[1].questionnaire_id \in {a.questionnaire_id : a \in rows}
                        THEN /\ result'[1].status = "InsertError"
                             /\ assignments' = assignments
                        ELSE /\ result'[1].status = "ok"
                             /\ \E a \in assignments' :
                                    /\ a \notin assignments
                                    /\ assignments' = assignments \cup {a}
                                    /\ Content(a) = <<S, loc[1].questionnaire_id,
                                                      loc[1].weight, TRUE>>]_vars

\* an Assignment was created and deactivated, and the assignSingle for the same
\* ScanCode and questionnaire that followed was rejected by the store: the store
\* holds the deactivated Assignment alone
C26_Witness ==
    /\ ncalls = 3
    /\ result[1].op = "assignSingle"
    /\ result[1].status = "InsertError"
    /\ Cardinality(assignments) = 1
    /\ \A a \in assignments :
           /\ ~a.is_active
           /\ a.deactivated_at
           /\ a.qrcode_id = result[1].args[1]
           /\ a.questionnaire_id = result[1].args[2]

C28_PropagationDeduplicates ==
    [][LET multi == {q \in Questionnaires :
                       Cardinality({pr \in PairsOfOthers : pr[1] = q}) >= 2}
       IN (pc[1] = "gen_assign" /\ GenAssign(1) /\ multi # {}) =>
            \A q \in multi :
               LET mine == {a \in assignments' : /\ a.qrcode_id = loc[1].new_id
                                                  /\ a.questionnaire_id = q}
               IN /\ Cardinality(mine) = 1
                  /\ \A a \in mine :
                        /\ a.is_active
                        /\ a \notin assignments
                        /\ <<q, a.weight>> \in PairsOfOthers
                        /\ [questionnaire_id |-> q, weight |-> a.weight] \in loc[1].found]_vars

\* ScanCodes 1 and 2 carry the same questionnaire with weights 1 and 2, and the
\* ScanCode provisioned after them carries it once
C28_Witness ==
    /\ ncalls = 3
    /\ result[1].op = "generate"
    /\ result[1].status = "ok"
    /\ \E a \in ActiveOn(assignments, 1), b \in ActiveOn(assignments, 2) :
           a.questionnaire_id = b.questionnaire_id /\ a.weight # b.weight
    /\ \E c \in echo_qrcode :
           /\ c.id \in result[1].data
           /\ Cardinality({a \in assignments : a.qrcode_id = c.id}) = 1

C30_ManualKeepsOneActive ==
    \A S \in QRIds(echo_qrcode) : Cardinality(ActiveOn(assignments, S)) <= 1

\* a ScanCode carries an active Assignment next to a deactivated one, after an
\* assignSingle, a deactivate and a second assignSingle
C30_Witness ==
    /\ ncalls = 3
    /\ result[1].op = "assignSingle"
    /\ result[1].status = "ok"
    /\ \E S \in QRIds(echo_qrcode) :
           /\ Cardinality(ActiveOn(assignments, S)) = 1
           /\ \E a \in assignments : a.qrcode_id = S /\ ~a.is_active

====
